---------------------------- MODULE Spec2Model ----------------------------
(***************************************************************************)
(* Model of sr, the RootAsRole launcher (src/src/sr.c).                    *)
(*                                                                         *)
(* One run of main() is a state machine whose program counter pc names the *)
(* source line about to execute.  C strings are sequences of one-character *)
(* strings; the single element LONG stands for a run of PATH_MAX filler    *)
(* characters, so that names of PATH_MAX bytes and more can be written     *)
(* without scaling PATH_MAX down.  The collaborators whose code is not in  *)
(* sr.c (user.h, capabilities.h, env.h, xml_manager.h) are modelled after  *)
(* their interfaces in spec.md; their return values are inputs.            *)
(***************************************************************************)
EXTENDS Integers, Sequences, FiniteSets, TLC

VARIABLES
    pc,         \* position of main(): the label of the next source line
    argc,       \* main's argc
    argv,       \* main's argv, without its terminating NULL entry
    usage,      \* history: parse_arguments() returned 0
    arguments,  \* arguments_t
    user,       \* char *user
    groups,     \* char **groups
    store,      \* the policy store read by get_settings_from_config
    command,    \* char *command
    iab,        \* cap_iab_t iab
    options,    \* options_t options
    setpcap,    \* CAP_SETPCAP is in the effective set of the process
    proc_iab,   \* the capability triple installed in the process
    securebits, \* the no-root securebits are active
    environ,    \* extern char **environ (names and validity of the values)
    env,        \* char **env, the output of filter_env_vars
    PATH,       \* the value getenv("PATH") points to
    PATH0,      \* history: the value of PATH when the process started
    secured,    \* history: the path secure_path computed
    errno,      \* errno
    fs,         \* the file system: path -> kind of file
    canon,      \* history: what realpath() returned
    path,       \* find_absolute_path_from_env: rest of the strtok buffer
    token,      \* find_absolute_path_from_env: char *token
    tried,      \* history: the candidates access() was asked about
    nargv,      \* sr_execve: the array nargv as written
    nargv_cap,  \* sr_execve: number of entries allocated for nargv
    execs,      \* history: the execve() calls made, in order
    image,      \* the program image the process runs
    status,     \* exit status of the process, NoStatus while it runs
    diag,       \* the diagnostic line written by error()
    calls       \* history: the collaborator calls made, in order

vars == <<pc, argc, argv, usage, arguments, user, groups, store, command, iab,
          options, setpcap, proc_iab, securebits, environ, env, PATH, PATH0,
          secured, errno, fs, canon, path, token, tried, nargv, nargv_cap, execs,
          image, status, diag, calls>>

argVars == <<argc, argv, usage, arguments>>
idVars == <<user, groups>>
polVars == <<store, iab, options>>
capVars == <<setpcap, proc_iab, securebits>>
envVars == <<environ, env, PATH, PATH0, secured>>
findVars == <<canon, path, token, tried>>
execVars == <<nargv, nargv_cap, execs, image>>

-----------------------------------------------------------------------------
(* Bounds of the model *)

MaxOpts == 2        \* options on the command line
MaxExtraArgs == 1   \* arguments after the command name
MaxPathLen == 4     \* characters of PATH in the search-only specification

(* Program constants *)

PATH_MAX == 4096    \* <linux/limits.h>

-----------------------------------------------------------------------------
(* C strings *)

NULL == <<"NULL">>          \* the null pointer
LONG == "X*PATH_MAX"        \* a run of PATH_MAX filler characters

CharLen(c) == IF c = LONG THEN PATH_MAX ELSE 1

RECURSIVE strlen(_)
strlen(s) == IF s = <<>> THEN 0 ELSE CharLen(Head(s)) + strlen(Tail(s))

Min(a, b) == IF a < b THEN a ELSE b

strnlen(s, maxlen) == Min(strlen(s), maxlen)

\* snprintf(full_path, strlen(token) + strlen(file) + 2, "%s/%s", token, file):
\* the buffer holds the whole result, nothing is truncated.
snprintf_path(tok, file) == tok \o <<"/">> \o file

\* strtok(): skip the leading delimiters ...
RECURSIVE SkipDelims(_)
SkipDelims(s) ==
    IF s # <<>> /\ Head(s) = ":" THEN SkipDelims(Tail(s)) ELSE s

\* ... the token is the longest prefix without a delimiter ...
RECURSIVE TokenOf(_)
TokenOf(s) ==
    IF s = <<>> \/ Head(s) = ":" THEN <<>>
    ELSE <<Head(s)>> \o TokenOf(Tail(s))

\* ... and the saved pointer is left after the delimiter that ended it.
strtok(s) ==
    LET t == SkipDelims(s)
        tok == TokenOf(t)
        after == SubSeq(t, Len(tok) + 1, Len(t))
    IN  IF t = <<>> THEN [token |-> NULL, rest |-> <<>>]
        ELSE [token |-> tok,
              rest |-> IF after = <<>> THEN <<>> ELSE Tail(after)]

-----------------------------------------------------------------------------
(* The command line *)

Prog == <<"s", "r">>
OptR == <<"-", "r">>
OptI == <<"-", "i">>
OptV == <<"-", "v">>
OptH == <<"-", "h">>
OptBad == <<"-", "z">>
R1 == <<"r", "1">>
R2 == <<"r", "2">>
CmdX == <<"x">>
CmdLong == <<LONG>>
CmdRoot == <<"/">>
ArgY == <<"y">>

\* argv[i] of the C program (0-based); argv[argc] is the terminating NULL.
At(av, i) == IF i + 1 <= Len(av) THEN av[i + 1] ELSE NULL

\* getopt_long(argc, argv, "+r:ivh", long_options, NULL) at index optind:
\* the leading '+' stops the scan at the first word that is no option.
getopt_long(ac, av, optind) ==
    LET w == At(av, optind)
    IN  IF optind >= ac \/ w = NULL \/ Len(w) < 2 \/ Head(w) # "-"
        THEN [c |-> "-1", optarg |-> NULL, optind |-> optind]
        ELSE IF w = <<"-", "-">>
        THEN [c |-> "-1", optarg |-> NULL, optind |-> optind + 1]
        ELSE IF w = OptR
        THEN IF optind + 1 < ac
             THEN [c |-> "r", optarg |-> At(av, optind + 1),
                   optind |-> optind + 2]
             ELSE [c |-> "?", optarg |-> NULL, optind |-> optind + 1]
        ELSE IF w \in {OptI, OptV, OptH}
        THEN [c |-> w[2], optarg |-> NULL, optind |-> optind + 1]
        ELSE [c |-> "?", optarg |-> NULL, optind |-> optind + 1]

\* parse_arguments(): the while loop over getopt_long, then the shift of
\* argc and argv by optind.  ret is the value returned, g the result of
\* this iteration's one call of getopt_long.
RECURSIVE parse_loop(_, _, _, _)
parse_loop(ac, av, optind, args) ==
    CHOOSE r \in
      { CASE g.c = "-1" ->
               [ret |-> 1, args |-> args, argc |-> ac - g.optind,
                argv |-> SubSeq(av, g.optind + 1, Len(av))]
          [] g.c = "r" ->
               parse_loop(ac, av, g.optind, [args EXCEPT !.role = g.optarg])
          [] g.c = "i" ->
               parse_loop(ac, av, g.optind, [args EXCEPT !.info = 1])
          [] g.c = "v" ->
               parse_loop(ac, av, g.optind, [args EXCEPT !.version = 1])
          [] g.c = "h" ->
               parse_loop(ac, av, g.optind, [args EXCEPT !.help = 1])
          [] OTHER ->
               [ret |-> 0, args |-> args, argc |-> ac, argv |-> av]
        : g \in {getopt_long(ac, av, optind)} } : TRUE

parse_arguments(ac, av, args) == parse_loop(ac, av, 1, args)

-----------------------------------------------------------------------------
(* The collaborators, after their interfaces in spec.md *)

NoRole == NULL
NoUser == "(null)"
NULL_iab == [i |-> {"(null)"}, a |-> {"(null)"}, b |-> {"(null)"}]
NULL_options ==
    [no_root |-> FALSE, env_keep |-> {"(null)"}, env_check |-> {"(null)"},
     path |-> NULL]

DirA == <<"/", "a">>
DirB == <<"/", "b">>
DirT == <<"/", "t">>
Cwd == <<"/", "c">>
Colon == <<":">>

\* A role of the policy store: who it is granted to, for which command,
\* with which capability triple and execution options.
RoleR1(granted) ==
    [name |-> R1,
     actors |-> IF granted THEN {"ops"} ELSE {},
     commands |-> {CmdX},
     iab |-> [i |-> {"CAP_NET_RAW"}, a |-> {"CAP_NET_RAW"},
              b |-> {"CAP_NET_RAW"}],
     options |-> [no_root |-> TRUE, env_keep |-> {"TERM", "LANG"},
                  env_check |-> {"TZ"}, path |-> DirA \o Colon \o DirB]]

\* R2 grants its actors whatever they name, the root directory included.
RoleR2(granted) ==
    [name |-> R2,
     actors |-> IF granted THEN {"alice"} ELSE {},
     commands |-> {CmdX, CmdRoot},
     iab |-> [i |-> {"CAP_NET_RAW", "CAP_SYS_BOOT"},
              a |-> {"CAP_SYS_BOOT"},
              b |-> {"CAP_NET_RAW", "CAP_SYS_BOOT"}],
     options |-> [no_root |-> FALSE, env_keep |-> {"TERM"},
                  env_check |-> {}, path |-> DirB \o Colon \o DirA]]

Stores == {<<RoleR1(g1), RoleR2(g2)>> : g1 \in BOOLEAN, g2 \in BOOLEAN}

\* spec.md 4.1: a role is a candidate when it grants the command to the
\* identity directly or through one of its groups.
Grants(role, u, gs, cmd) ==
    /\ (u \in role.actors \/ \E k \in 1..Len(gs) : gs[k] \in role.actors)
    /\ cmd \in role.commands

Candidates(st, u, gs, cmd) == {k \in 1..Len(st) : Grants(st[k], u, gs, cmd)}

FirstOf(S) == CHOOSE k \in S : \A j \in S : k <= j

\* get_settings_from_config(user, nb_groups, groups, command, &iab, &options)
\* as main() calls it: no role is passed; first-defined candidate wins.
get_settings_from_config(st, u, gs, cmd) ==
    LET C == Candidates(st, u, gs, cmd)
    IN  IF C = {} THEN [ret |-> 0, iab |-> NULL_iab, options |-> NULL_options]
        ELSE [ret |-> 1, iab |-> st[FirstOf(C)].iab,
              options |-> st[FirstOf(C)].options]

\* spec.md 4.3: keep what env_keep names, keep what env_check names when the
\* value passes its validator, drop the rest.
filter_env_vars(envp, env_keep, env_check) ==
    SelectSeq(envp, LAMBDA e : \/ e.name \in env_keep
                              \/ (e.name \in env_check /\ e.ok))

\* spec.md 4.4, fixed-list policy: the list of the policy, whatever the
\* inherited value is.
secure_path(inherited, fixed) == fixed

Environ(tz_ok) ==
    <<[name |-> "TERM", ok |-> TRUE], [name |-> "LANG", ok |-> TRUE],
      [name |-> "EVIL", ok |-> FALSE], [name |-> "TZ", ok |-> tz_ok],
      [name |-> "PATH", ok |-> TRUE]>>

-----------------------------------------------------------------------------
(* The file system *)

Kinds == {"bin", "script", "plain", "missing"}    \* of the files listed

FA == snprintf_path(DirA, CmdX)
FB == snprintf_path(DirB, CmdX)
FC == snprintf_path(Cwd, CmdX)
FT == snprintf_path(DirT, CmdX)
Files == {FA, FB, FC, FT}

Root == <<"/">>

\* The kernel reads a run of slashes in a path as one slash.
RECURSIVE Squeeze(_)
Squeeze(p) ==
    IF Len(p) < 2 THEN p
    ELSE IF p[1] = "/" /\ p[2] = "/" THEN Squeeze(Tail(p))
    ELSE <<Head(p)>> \o Squeeze(Tail(p))

TrailingSlash(p) == Len(p) > 1 /\ p[Len(p)] = "/"

\* The file or directory a spelling of a path names.
path_resolution(p) ==
    LET q == Squeeze(p)
    IN  IF TrailingSlash(q) THEN SubSeq(q, 1, Len(q) - 1) ELSE q

Parent(p) ==
    LET S == {k \in 1..Len(p) : p[k] = "/"}
        last == CHOOSE k \in S : \A j \in S : j <= k
    IN  IF S = {} THEN Cwd
        ELSE IF last = 1 THEN Root
        ELSE SubSeq(p, 1, last - 1)

\* The directories of a file system: the root, the working directory and
\* the directory of every file that exists.
Dirs(f) ==
    {Root, Cwd} \cup {Parent(q) : q \in {r \in DOMAIN f : f[r] # "missing"}}

\* What a path names: a file by its kind, a directory ("dir"), a file that
\* is used as a directory ("notdir"), or nothing.
Kind(f, p) ==
    LET q == path_resolution(p)
    IN  IF p = <<>> THEN "missing"
        ELSE IF q \in DOMAIN f /\ f[q] # "missing"
        THEN IF TrailingSlash(Squeeze(p)) THEN "notdir" ELSE f[q]
        ELSE IF q \in Dirs(f) THEN "dir"
        ELSE "missing"

\* access(p, X_OK)
access(f, p) ==
    IF p = NULL THEN [ret |-> -1, errno |-> "EFAULT"]
    ELSE IF Kind(f, p) \in {"bin", "script", "dir"}
    THEN [ret |-> 0, errno |-> "-"]
    ELSE IF Kind(f, p) = "plain" THEN [ret |-> -1, errno |-> "EACCES"]
    ELSE IF Kind(f, p) = "notdir" THEN [ret |-> -1, errno |-> "ENOTDIR"]
    ELSE [ret |-> -1, errno |-> "ENOENT"]

\* errno after a call: "-" in a result means the call left errno alone.
Errno(old, new) == IF new = "-" THEN old ELSE new

\* realpath(name, NULL): the canonical path of an existing file, or NULL
\* with errno set.  It can also fail on the way (ENAMETOOLONG, EACCES,
\* ENOMEM).
Absolute(name) ==
    IF name # <<>> /\ Head(name) = "/" THEN name
    ELSE snprintf_path(Cwd, name)

Canonical(name) == path_resolution(Absolute(name))

\* a name made of slashes only has no component to look up
HasComponent(name) == \E k \in 1..Len(name) : name[k] # "/"

\* The C library reads every component with readlink(), which fails with
\* EINVAL on what is no symbolic link, and leaves that value in errno when
\* it succeeds; with no component errno is left alone.  The result is
\* allocated by realpath(), which fails with ENOMEM when it cannot be.
realpath(f, name) ==
    IF name = NULL \/ name = <<>>
    THEN {[ret |-> NULL, errno |-> IF name = NULL THEN "EINVAL" ELSE "ENOENT"]}
    ELSE IF ~HasComponent(name)
    THEN {[ret |-> Canonical(name), errno |-> "-"],
          [ret |-> NULL, errno |-> "ENOMEM"]}
    ELSE (CASE Kind(f, Absolute(name)) = "missing" ->
                 {[ret |-> NULL, errno |-> "ENOENT"]}
            [] Kind(f, Absolute(name)) = "notdir" ->
                 {[ret |-> NULL, errno |-> "ENOTDIR"]}
            [] OTHER ->
                 {[ret |-> Canonical(name), errno |-> "EINVAL"]})
         \cup {[ret |-> NULL, errno |-> e] :
                  e \in {"ENAMETOOLONG", "EACCES", "ENOMEM"}}

\* execve(p, argv, envp): "OK" when the image is replaced, else the errno.
execve(f, p) ==
    CASE Kind(f, p) = "bin" -> {"OK", "ENOMEM"}
      [] Kind(f, p) = "script" -> {"ENOEXEC"}
      [] Kind(f, p) \in {"plain", "dir"} -> {"EACCES"}
      [] Kind(f, p) = "notdir" -> {"ENOTDIR"}
      [] OTHER -> {"ENOENT"}

-----------------------------------------------------------------------------
(* The inputs of a run *)

OptGroups == {<<OptR, R1>>, <<OptR, R2>>, <<OptI>>, <<OptV>>, <<OptH>>,
              <<OptBad>>}

RECURSIVE OptWords(_)
OptWords(n) ==
    IF n = 0 THEN {<<>>}
    ELSE OptWords(n - 1) \cup {g \o w : g \in OptGroups, w \in OptWords(n - 1)}

RECURSIVE ExtraArgs(_)
ExtraArgs(n) ==
    IF n = 0 THEN {<<>>}
    ELSE ExtraArgs(n - 1) \cup {<<ArgY>> \o w : w \in ExtraArgs(n - 1)}

Rests == {<<>>} \cup {<<c>> \o w : c \in {CmdX, CmdLong, CmdRoot},
                                   w \in ExtraArgs(MaxExtraArgs)}

CommandLines == {<<Prog>> \o o \o r : o \in OptWords(MaxOpts), r \in Rests}

Paths == {DirA \o Colon \o DirB, DirT \o Colon \o DirA}

FileSystems ==
    {[p \in Files |-> CASE p = FB -> "bin" [] OTHER -> "missing"],
     [p \in Files |-> CASE p = FA -> "script" [] OTHER -> "bin"],
     [p \in Files |-> CASE p = FB -> "missing" [] p = FT -> "script"
                         [] OTHER -> "plain"],
     [p \in Files |-> CASE p = FA -> "bin" [] p = FB -> "script"
                         [] p = FT -> "bin" [] OTHER -> "missing"],
     [p \in Files |-> "missing"]}

\* errno values a collaborator can leave behind, "-" for none
StaleErrnos == {"-", "ENOENT", "ENAMETOOLONG"}

Running == 0 - 1    \* status of a process that has not exited

Sh == <<"s", "h">>
BinSh == <<"/", "b", "i", "n", "/", "s", "h">>
Garbage == <<"?">>  \* whatever lies in memory after the array nargv

StartImage == [file |-> Prog, argv |-> <<>>, envp |-> <<>>]

Init ==
    /\ pc = "parse"
    /\ argv \in CommandLines
    /\ argc = Len(argv)
    /\ usage = FALSE
    /\ arguments = [role |-> NoRole, info |-> 0, version |-> 0, help |-> 0]
    /\ user = NoUser
    /\ groups = <<>>
    /\ store = <<>>
    /\ command = NULL
    /\ iab = NULL_iab
    /\ options = NULL_options
    /\ setpcap = FALSE
    /\ proc_iab = NULL_iab
    /\ securebits = FALSE
    /\ environ \in {Environ(TRUE), Environ(FALSE)}
    /\ env = <<>>
    /\ PATH \in Paths
    /\ PATH0 = PATH
    /\ secured = NULL
    /\ errno = "0"
    /\ fs \in FileSystems
    /\ canon = NULL
    /\ path = <<>>
    /\ token = NULL
    /\ tried = <<>>
    /\ nargv = <<>>
    /\ nargv_cap = 0
    /\ execs = <<>>
    /\ image = StartImage
    /\ status = Running
    /\ diag = ""
    /\ calls = <<>>

-----------------------------------------------------------------------------
(* main(), lines 109-199 *)

\* error(1, 0, msg) and return from main: the process ends.
Exit(code, msg) ==
    /\ pc' = "exited"
    /\ status' = code
    /\ diag' = msg

Goto(label) ==
    /\ pc' = label
    /\ UNCHANGED <<status, diag>>

\* the return value of parse_arguments not tested
main_parse_mutant ==
    /\ pc = "parse"
    /\ LET r == parse_arguments(argc, argv, arguments)
       IN  /\ arguments' = r.args
           /\ argc' = r.argc
           /\ argv' = r.argv
           /\ usage' = (r.ret = 0)
           /\ IF r.args.help = 1 THEN Exit(0, "Usage")
              ELSE IF r.args.version = 1 THEN Exit(0, "SR version")
              ELSE Goto("get_username")
    /\ UNCHANGED <<idVars, polVars, capVars, envVars, findVars, execVars,
                   command, errno, fs, calls>>

\* lines 111-123: option parsing, usage and version
main_parse ==
    /\ pc = "parse"
    /\ LET r == parse_arguments(argc, argv, arguments)
       IN  /\ arguments' = r.args
           /\ argc' = r.argc
           /\ argv' = r.argv
           /\ usage' = (r.ret = 0)
           /\ IF r.ret = 0 \/ r.args.help = 1 THEN Exit(0, "Usage")
              ELSE IF r.args.version = 1 THEN Exit(0, "SR version")
              ELSE Goto("get_username")
    /\ UNCHANGED <<idVars, polVars, capVars, envVars, findVars, execVars,
                   command, errno, fs, calls>>

\* lines 125-129
main_get_username ==
    /\ pc = "get_username"
    /\ calls' = Append(calls, "get_username")
    /\ \E u \in {"alice", NoUser} :
          /\ user' = u
          /\ IF u = NoUser
             THEN Exit(1, "Unable to retrieve the username of the executor")
             ELSE Goto("authenticate")
    /\ UNCHANGED <<argVars, groups, polVars, capVars, envVars, findVars,
                   execVars, command, errno, fs>>

\* lines 130-132
authenticated == "pam_authenticate_user:1"
rejected == "pam_authenticate_user:0"

\* the verdict of pam_authenticate_user ignored
main_authenticate_mutant ==
    /\ pc = "authenticate"
    /\ \E ok \in BOOLEAN :
          /\ calls' = Append(calls, IF ok THEN authenticated ELSE rejected)
          /\ Goto("get_group_names")
    /\ UNCHANGED <<argVars, idVars, polVars, capVars, envVars, findVars,
                   execVars, command, errno, fs>>

main_authenticate ==
    /\ pc = "authenticate"
    /\ \E ok \in BOOLEAN :
          /\ calls' = Append(calls, IF ok THEN authenticated ELSE rejected)
          /\ IF ~ok THEN Exit(1, "Authentication failed")
             ELSE Goto("get_group_names")
    /\ UNCHANGED <<argVars, idVars, polVars, capVars, envVars, findVars,
                   execVars, command, errno, fs>>

\* lines 133-138
main_get_group_names ==
    /\ pc = "get_group_names"
    /\ calls' = Append(calls, "get_group_names")
    /\ \E ret \in {0, 1} :
          IF ret # 0
          THEN /\ Exit(1, "Unable to retrieve the groups of the executor")
               /\ UNCHANGED groups
          ELSE /\ groups' = <<"ops">>
               /\ Goto("branch")
    /\ UNCHANGED <<argVars, user, polVars, capVars, envVars, findVars,
                   execVars, command, errno, fs>>

\* info mode without its else: the command branch runs after the report
main_info_mutant ==
    /\ pc = "branch"
    /\ arguments.info = 1
    /\ calls' = Append(calls, IF arguments.role = NULL THEN "print_rights"
                                ELSE "print_rights_role")
    /\ IF At(argv, 0) = NULL
       THEN Exit(0, "") /\ UNCHANGED command
       ELSE command' = At(argv, 0) /\ Goto("get_settings")
    /\ UNCHANGED <<argVars, idVars, polVars, capVars, envVars, findVars,
                   execVars, errno, fs>>

\* lines 140-146 and 196-198: info mode
main_info ==
    /\ pc = "branch"
    /\ arguments.info = 1
    /\ calls' = Append(calls, IF arguments.role = NULL THEN "print_rights"
                                ELSE "print_rights_role")
    /\ Exit(0, "")
    /\ UNCHANGED <<argVars, idVars, polVars, capVars, envVars, findVars,
                   execVars, command, errno, fs>>

\* strndup(s, n): s when it has at most n bytes
RECURSIVE strndup(_, _)
strndup(s, n) ==
    IF s = <<>> \/ CharLen(Head(s)) > n THEN <<>>
    ELSE <<Head(s)>> \o strndup(Tail(s), n - CharLen(Head(s)))

\* line 147 with argc = 0: argv[0] is the terminating NULL and strnlen()
\* dereferences it.  The behaviour is undefined: the process is killed by
\* SIGSEGV, or the read yields bytes that name no command.
main_null_command ==
    /\ pc = "branch"
    /\ arguments.info = 0
    /\ At(argv, 0) = NULL
    /\ \/ /\ Exit(139, "Segmentation fault")
          /\ UNCHANGED <<command, calls>>
       \/ /\ command' = NULL
          /\ calls' = Append(calls, "strnlen(NULL)")
          /\ Goto("get_settings")
    /\ UNCHANGED <<argVars, idVars, polVars, capVars, envVars, findVars,
                   execVars, errno, fs>>

\* lines 147-148 and 193-195.  The result of strndup() is not tested: when
\* the copy cannot be allocated, command is NULL and main() goes on.
main_command ==
    /\ pc = "branch"
    /\ arguments.info = 0
    /\ At(argv, 0) # NULL
    /\ IF strnlen(At(argv, 0), PATH_MAX) < PATH_MAX
       THEN /\ \E allocated \in BOOLEAN :
                  IF allocated
                  THEN /\ command' = strndup(At(argv, 0), PATH_MAX)
                       /\ UNCHANGED errno
                  ELSE /\ command' = NULL
                       /\ errno' = "ENOMEM"
            /\ Goto("get_settings")
       ELSE /\ Exit(1, "Command too long")
            /\ UNCHANGED <<command, errno>>
    /\ UNCHANGED <<argVars, idVars, polVars, capVars, envVars, findVars,
                   execVars, fs, calls>>

\* the decision whose return value is not tested
main_get_settings_mutant ==
    /\ pc = "get_settings"
    /\ calls' = Append(calls, "get_settings_from_config")
    /\ \E st \in Stores, e \in StaleErrnos :
          LET r == get_settings_from_config(st, user, groups, command)
          IN  /\ store' = st
              /\ iab' = r.iab
              /\ options' = r.options
              /\ errno' = Errno(errno, e)
              /\ Goto("setpcap_on")
    /\ UNCHANGED <<argVars, idVars, capVars, envVars, findVars, execVars,
                   command, fs>>

\* lines 149-154: the policy decision; the role of -r is not an argument
main_get_settings ==
    /\ pc = "get_settings"
    /\ calls' = Append(calls, "get_settings_from_config")
    /\ \E st \in Stores, e \in StaleErrnos :
          LET r == get_settings_from_config(st, user, groups, command)
          IN  /\ store' = st
              /\ iab' = r.iab
              /\ options' = r.options
              /\ errno' = Errno(errno, e)
              /\ IF r.ret = 0 THEN Exit(1, "Permission denied")
                 ELSE Goto("setpcap_on")
    /\ UNCHANGED <<argVars, idVars, capVars, envVars, findVars, execVars,
                   command, fs>>

\* setpcap_effective(enable): CAP_SETPCAP enters or leaves the effective
\* set; a call that fails changes nothing.
setpcap_effective(cur, enable, ok) == IF ok THEN enable ELSE cur

\* the acquisition whose failure is not tested
main_setpcap_on_mutant ==
    /\ pc = "setpcap_on"
    /\ calls' = Append(calls, "setpcap_effective(1)")
    /\ \E ok \in BOOLEAN :
          /\ setpcap' = setpcap_effective(setpcap, TRUE, ok)
          /\ Goto("cap_iab_set_proc")
    /\ UNCHANGED <<argVars, idVars, polVars, proc_iab, securebits, envVars,
                   findVars, execVars, command, errno, fs>>

\* lines 155-157
main_setpcap_on ==
    /\ pc = "setpcap_on"
    /\ calls' = Append(calls, "setpcap_effective(1)")
    /\ \E ok \in BOOLEAN :
          /\ setpcap' = setpcap_effective(setpcap, TRUE, ok)
          /\ IF ~ok THEN Exit(1, "Unable to setpcap capability")
             ELSE Goto("cap_iab_set_proc")
    /\ UNCHANGED <<argVars, idVars, polVars, proc_iab, securebits, envVars,
                   findVars, execVars, command, errno, fs>>

\* the installation whose failure is not tested
main_cap_iab_set_proc_mutant ==
    /\ pc = "cap_iab_set_proc"
    /\ calls' = Append(calls, "cap_iab_set_proc")
    /\ \E ok \in BOOLEAN :
          /\ proc_iab' = IF ok THEN iab ELSE proc_iab
          /\ Goto("setpcap_off")
    /\ UNCHANGED <<argVars, idVars, polVars, setpcap, securebits, envVars,
                   findVars, execVars, command, errno, fs>>

\* lines 158-160
main_cap_iab_set_proc ==
    /\ pc = "cap_iab_set_proc"
    /\ calls' = Append(calls, "cap_iab_set_proc")
    /\ \E ok \in BOOLEAN :
          /\ proc_iab' = IF ok THEN iab ELSE proc_iab
          /\ IF ~ok THEN Exit(1, "Unable to set capabilities")
             ELSE Goto("setpcap_off")
    /\ UNCHANGED <<argVars, idVars, polVars, setpcap, securebits, envVars,
                   findVars, execVars, command, errno, fs>>

\* lines 161-164
main_setpcap_off ==
    /\ pc = "setpcap_off"
    /\ calls' = Append(calls, "setpcap_effective(0)")
    /\ \E ok \in BOOLEAN :
          /\ setpcap' = setpcap_effective(setpcap, FALSE, ok)
          /\ IF ~ok THEN Exit(1, "Unable to setpcap capability")
             ELSE IF options.no_root THEN Goto("securebits")
             ELSE Goto("filter_env")
    /\ UNCHANGED <<argVars, idVars, polVars, proc_iab, securebits, envVars,
                   findVars, execVars, command, errno, fs>>

\* the activation whose failure is not tested
main_securebits_mutant ==
    /\ pc = "securebits"
    /\ calls' = Append(calls, "activates_securebits")
    /\ \E ok \in BOOLEAN :
          /\ securebits' = ok
          /\ Goto("filter_env")
    /\ UNCHANGED <<argVars, idVars, polVars, setpcap, proc_iab, envVars,
                   findVars, execVars, command, errno, fs>>

\* lines 164-168
main_securebits ==
    /\ pc = "securebits"
    /\ calls' = Append(calls, "activates_securebits")
    /\ \E ok \in BOOLEAN :
          /\ securebits' = ok
          /\ IF ~ok THEN Exit(1, "Unable to activate securebits")
             ELSE Goto("filter_env")
    /\ UNCHANGED <<argVars, idVars, polVars, setpcap, proc_iab, envVars,
                   findVars, execVars, command, errno, fs>>

\* lines 169-173
main_filter_env ==
    /\ pc = "filter_env"
    /\ calls' = Append(calls, "filter_env_vars")
    /\ \E res \in {0, 1} :
          IF res > 0
          THEN /\ Exit(1, "Unable to filter environment variables")
               /\ UNCHANGED env
          ELSE /\ env' = filter_env_vars(environ, options.env_keep,
                                         options.env_check)
               /\ Goto("secure_path")
    /\ UNCHANGED <<argVars, idVars, polVars, capVars, environ, PATH, PATH0,
                   secured, findVars, execVars, command, errno, fs>>

\* lines 174-177: secure_path(getenv("PATH"), options->path) returns an int
\* and nothing else; the only way its result can reach the process is by
\* writing through its first argument, the value of PATH itself.
main_secure_path ==
    /\ pc = "secure_path"
    /\ calls' = Append(calls, "secure_path")
    /\ \E res \in {0, 1}, writes \in BOOLEAN :
          IF res = 0
          THEN /\ Exit(1, "Unable to secure path")
               /\ UNCHANGED <<PATH, secured>>
          ELSE /\ secured' = secure_path(PATH, options.path)
               /\ PATH' = IF writes THEN secured' ELSE PATH
               /\ Goto("realpath")
    /\ UNCHANGED <<argVars, idVars, polVars, capVars, environ, env, PATH0,
                   findVars, execVars, command, errno, fs>>

\* lines 179-182: errno is tested whether or not realpath() failed
main_realpath ==
    /\ pc = "realpath"
    /\ calls' = Append(calls, "realpath")
    /\ \E r \in realpath(fs, At(argv, 0)) :
          /\ command' = r.ret
          /\ canon' = r.ret
          /\ errno' = Errno(errno, r.errno)
          /\ IF errno' = "ENAMETOOLONG" THEN Exit(1, "Path too long")
             ELSE Goto("access")
    /\ UNCHANGED <<argVars, idVars, polVars, capVars, envVars, path, token,
                   tried, execVars, fs>>

\* line 183: the test that sends main() to the PATH search
SearchPath(ret) == ret # 0

\* lines 183-184 and 188-190
main_access ==
    /\ pc = "access"
    /\ calls' = Append(calls, "access")
    /\ LET a == access(fs, command)
       IN  /\ errno' = Errno(errno, a.errno)
           /\ IF SearchPath(a.ret) THEN Goto("find")
              ELSE Exit(1, "Command not found")
    /\ UNCHANGED <<argVars, idVars, polVars, capVars, envVars, findVars,
                   execVars, command, fs>>

-----------------------------------------------------------------------------
(* find_absolute_path_from_env(file), lines 70-87; file is argv[0] *)

\* lines 71-76: a copy of getenv("PATH") and its first token, or the
\* return of NULL when strdup() could not allocate the copy
find_entry ==
    /\ pc = "find"
    /\ calls' = Append(calls, "find_absolute_path_from_env")
    /\ \E allocated \in BOOLEAN :
          IF allocated
          THEN LET t == strtok(PATH)
               IN  /\ token' = t.token
                   /\ path' = t.rest
                   /\ Goto("find_loop")
                   /\ UNCHANGED <<command, errno>>
          ELSE /\ path' = NULL
               /\ token' = NULL
               /\ command' = NULL
               /\ errno' = "ENOMEM"
               /\ Goto("found")
    /\ UNCHANGED <<argVars, idVars, polVars, capVars, envVars, canon, tried,
                   execVars, fs>>

\* the loop without line 84: the token is never advanced
find_loop_stuck ==
    /\ pc = "find_loop"
    /\ IF token # NULL
       THEN \E allocated \in BOOLEAN :
            IF ~allocated
            THEN /\ errno' = "ENOMEM"
                 /\ Exit(139, "Segmentation fault")
                 /\ UNCHANGED <<command, token, path, tried>>
            ELSE
            LET full_path == snprintf_path(token, At(argv, 0))
                a == access(fs, full_path)
            IN  /\ tried' = Append(tried, full_path)
                /\ errno' = Errno(errno, a.errno)
                /\ IF a.ret = 0
                   THEN /\ command' = full_path
                        /\ Goto("found")
                   ELSE /\ Goto("find_loop")
                        /\ UNCHANGED command
                /\ UNCHANGED <<token, path>>
       ELSE /\ command' = NULL
            /\ Goto("found")
            /\ UNCHANGED <<token, path, tried, errno>>
    /\ UNCHANGED <<argVars, idVars, polVars, capVars, envVars, canon,
                   execVars, fs, calls>>

\* lines 77-86: one turn of the loop, or the return after it.  The result
\* of malloc() at line 78 is not tested: when it is NULL, snprintf() at line
\* 79 writes through it and the process is killed by SIGSEGV, with the
\* ENOMEM of malloc() in errno, before the candidate reaches access().
find_loop ==
    /\ pc = "find_loop"
    /\ IF token # NULL
       THEN \E allocated \in BOOLEAN :
            IF ~allocated
            THEN /\ errno' = "ENOMEM"
                 /\ Exit(139, "Segmentation fault")
                 /\ UNCHANGED <<command, token, path, tried>>
            ELSE
            LET full_path == snprintf_path(token, At(argv, 0))
                a == access(fs, full_path)
                t == strtok(path)
            IN  /\ tried' = Append(tried, full_path)
                /\ errno' = Errno(errno, a.errno)
                /\ IF a.ret = 0
                   THEN /\ command' = full_path
                        /\ Goto("found")
                        /\ UNCHANGED <<token, path>>
                   ELSE /\ token' = t.token
                        /\ path' = t.rest
                        /\ Goto("find_loop")
                        /\ UNCHANGED command
       ELSE /\ command' = NULL
            /\ Goto("found")
            /\ UNCHANGED <<token, path, tried, errno>>
    /\ UNCHANGED <<argVars, idVars, polVars, capVars, envVars, canon,
                   execVars, fs, calls>>

\* lines 185-187 and 191
main_found ==
    /\ pc = "found"
    /\ IF command = NULL THEN Exit(1, "Command not found")
       ELSE Goto("sr_execve")
    /\ UNCHANGED <<argVars, idVars, polVars, capVars, envVars, findVars,
                   execVars, command, errno, fs, calls>>

-----------------------------------------------------------------------------
(* sr_execve(command, argc, argv, env), lines 89-103 *)

\* line 91: the test that starts the shell fallback
Fallback(i, e) == i = -1 \/ e = "ENOEXEC"

\* execve(file, argv, envp) replaces the image of the process
Image(file, av, envp) == [file |-> file, argv |-> av, envp |-> envp]

\* the launch with the inherited environment instead of p_envp
sr_execve_direct_mutant ==
    /\ pc = "sr_execve"
    /\ calls' = Append(calls, "execve")
    /\ \E r \in execve(fs, command) :
          /\ execs' = Append(execs, [how |-> "direct", file |-> command,
                                     argv |-> argv, envp |-> environ,
                                     result |-> r])
          /\ IF r = "OK"
             THEN /\ image' = Image(command, argv, environ)
                  /\ Goto("replaced")
                  /\ UNCHANGED errno
             ELSE /\ errno' = r
                  /\ IF Fallback(-1, r) THEN Goto("sr_fallback")
                     ELSE Goto("return")
                  /\ UNCHANGED image
    /\ UNCHANGED <<argVars, idVars, polVars, capVars, envVars, findVars,
                   nargv, nargv_cap, command, fs>>

\* lines 90-91
sr_execve_direct ==
    /\ pc = "sr_execve"
    /\ calls' = Append(calls, "execve")
    /\ \E r \in execve(fs, command) :
          /\ execs' = Append(execs, [how |-> "direct", file |-> command,
                                     argv |-> argv, envp |-> env,
                                     result |-> r])
          /\ IF r = "OK"
             THEN /\ image' = Image(command, argv, env)
                  /\ Goto("replaced")
                  /\ UNCHANGED errno
             ELSE /\ errno' = r
                  /\ IF Fallback(-1, r) THEN Goto("sr_fallback")
                     ELSE Goto("return")
                  /\ UNCHANGED image
    /\ UNCHANGED <<argVars, idVars, polVars, capVars, envVars, findVars,
                   nargv, nargv_cap, command, fs>>

\* lines 92-101: nargv has p_argc + 1 entries; "sh", command and the p_argc
\* entries of p_argv are written to it, without a terminating NULL.  What
\* execve reads after the last entry written is whatever follows in memory.
sr_execve_fallback ==
    /\ pc = "sr_fallback"
    /\ \E allocated \in BOOLEAN :
          IF ~allocated
          THEN /\ errno' = "ENOMEM"
               /\ Goto("return")
               /\ UNCHANGED <<nargv, nargv_cap, execs, image, calls>>
          ELSE /\ nargv_cap' = argc + 1
               /\ nargv' = <<Sh, command>> \o SubSeq(argv, 1, argc)
               /\ calls' = Append(calls, "execve(/bin/sh)")
               /\ \E tail \in {<<>>, <<Garbage>>},
                     r \in {"OK", "ENOMEM", "EFAULT"} :
                     /\ execs' = Append(execs,
                                       [how |-> "fallback", file |-> BinSh,
                                        argv |-> nargv' \o tail,
                                        envp |-> env, result |-> r])
                     /\ IF r = "OK"
                        THEN /\ image' = Image(BinSh, nargv' \o tail, env)
                             /\ Goto("replaced")
                             /\ UNCHANGED errno
                        ELSE /\ errno' = r
                             /\ UNCHANGED image
                             /\ \/ Goto("return")
                                \/ /\ Len(nargv') > nargv_cap'
                                   /\ Exit(134, "free(): invalid pointer")
    /\ UNCHANGED <<argVars, idVars, polVars, capVars, envVars, findVars,
                   command, fs>>

\* lines 196-198, reached when sr_execve returns
main_return ==
    /\ pc = "return"
    /\ Exit(0, "")
    /\ UNCHANGED <<argVars, idVars, polVars, capVars, envVars, findVars,
                   execVars, command, errno, fs, calls>>

-----------------------------------------------------------------------------
(* The specifications *)

Next ==
    \/ main_parse
    \/ main_get_username
    \/ main_authenticate
    \/ main_get_group_names
    \/ main_info
    \/ main_null_command
    \/ main_command
    \/ main_get_settings
    \/ main_setpcap_on
    \/ main_cap_iab_set_proc
    \/ main_setpcap_off
    \/ main_securebits
    \/ main_filter_env
    \/ main_secure_path
    \/ main_realpath
    \/ main_access
    \/ find_entry
    \/ find_loop
    \/ main_found
    \/ sr_execve_direct
    \/ sr_execve_fallback
    \/ main_return

Spec == Init /\ [][Next]_vars

\* main() is one thread of straight-line code: as long as a step is left
\* and the call it makes returns, the step is taken.
SpecLive == Spec /\ WF_vars(Next)

\* find_absolute_path_from_env on its own: any PATH of at most MaxPathLen
\* characters, any set of executable candidates.
SearchChars == {"a", "b", "/", ":"}

RECURSIVE Strings(_)
Strings(n) ==
    IF n = 0 THEN {<<>>}
    ELSE Strings(n - 1) \cup {<<c>> \o w : c \in SearchChars,
                                           w \in Strings(n - 1)}

SearchFiles == {snprintf_path(d, CmdX) : d \in {<<"a">>, <<"b">>, DirA}}

InitSearch ==
    /\ pc = "find"
    /\ argv = <<CmdX>>
    /\ argc = 1
    /\ usage = FALSE
    /\ arguments = [role |-> NoRole, info |-> 0, version |-> 0, help |-> 0]
    /\ user = NoUser
    /\ groups = <<>>
    /\ store = <<>>
    /\ command = NULL
    /\ iab = NULL_iab
    /\ options = NULL_options
    /\ setpcap = FALSE
    /\ proc_iab = NULL_iab
    /\ securebits = FALSE
    /\ environ = Environ(TRUE)
    /\ env = <<>>
    /\ PATH \in Strings(MaxPathLen)
    /\ PATH0 = PATH
    /\ secured = NULL
    /\ errno = "0"
    /\ fs \in [SearchFiles -> {"bin", "missing"}]
    /\ canon = NULL
    /\ path = <<>>
    /\ token = NULL
    /\ tried = <<>>
    /\ nargv = <<>>
    /\ nargv_cap = 0
    /\ execs = <<>>
    /\ image = StartImage
    /\ status = Running
    /\ diag = ""
    /\ calls = <<>>

NextSearch ==
    \/ find_entry
    \/ find_loop

SpecSearch == InitSearch /\ [][NextSearch]_vars

-----------------------------------------------------------------------------
(* Properties *)

Called(c) == \E k \in 1..Len(calls) : calls[k] = c

CapCalls == {"setpcap_effective(1)", "cap_iab_set_proc",
             "setpcap_effective(0)", "activates_securebits"}

NoCapCall == \A c \in CapCalls : ~Called(c)

\* C1: when the authentication collaborator returns false, no capability
\* primitive is ever called, the capability state of the process is the
\* one it started with, and nothing is executed.
C1_AuthFailureNoCapCall ==
    Called(rejected) =>
        /\ NoCapCall
        /\ ~setpcap /\ proc_iab = NULL_iab /\ ~securebits
        /\ execs = <<>> /\ image = StartImage

C1_Witness ==
    /\ pc = "exited"
    /\ Called(rejected)
    /\ diag = "Authentication failed"
    /\ status = 1

CapFailures == {"Unable to setpcap capability", "Unable to set capabilities",
                "Unable to activate securebits"}

\* C2: when one of the four steps of the capability transition fails,
\* CAP_SETPCAP is not in the effective set when the process terminates.
C2_AtomicOrFail ==
    (pc = "exited" /\ diag \in CapFailures) => ~setpcap

\* spec.md 4.1: with a role hint the candidates are the named role only.
ResolveHint(st, u, gs, cmd, hint) ==
    LET C == {k \in Candidates(st, u, gs, cmd) : st[k].name = hint}
    IN  IF C = {} THEN [ret |-> 0, iab |-> NULL_iab, options |-> NULL_options]
        ELSE [ret |-> 1, iab |-> st[FirstOf(C)].iab,
              options |-> st[FirstOf(C)].options]

Decided == store # <<>>

\* C3: on a run with -r, the decision applied is the one the named role
\* alone gives: its triple and options, or Denied when that role does not
\* grant the command.
C3_RoleHintRestricts ==
    (Decided /\ arguments.role # NoRole) =>
        LET r == ResolveHint(store, user, groups, command, arguments.role)
        IN  /\ iab = r.iab
            /\ options = r.options
            /\ (r.ret = 0 => pc = "exited" /\ diag = "Permission denied")

CanonValid == canon # NULL /\ access(fs, canon).ret = 0

\* C4: when realpath() succeeds and its result is executable, that path is
\* the resolved command and the one handed to the Executor; the PATH search
\* runs only when realpath() failed or its result is not executable.
C4_DirectPathPreferred ==
    /\ (Called("access") /\ CanonValid) =>
          /\ command = canon
          /\ pc # "exited" \/ execs # <<>>
          /\ \A k \in 1..Len(execs) :
                execs[k].how = "direct" => execs[k].file = canon
    /\ Called("find_absolute_path_from_env") => ~CanonValid

\* The directories of a colon-separated list, by position: a directory is
\* a longest run of characters other than ':' and starts at i.
DirStarts(s) ==
    {i \in 1..Len(s) : s[i] # ":" /\ (i = 1 \/ s[i - 1] = ":")}

DirEnd(s, i) ==
    CHOOSE j \in i..Len(s) :
        /\ \A k \in i..j : s[k] # ":"
        /\ j = Len(s) \/ s[j + 1] = ":"

DirAt(s, i) == SubSeq(s, i, DirEnd(s, i))

Qualifying(s, file) ==
    {i \in DirStarts(s) : access(fs, DirAt(s, i) \o <<"/">> \o file).ret = 0}

FirstMatch ==
    LET Q == Qualifying(PATH, At(argv, 0))
    IN  IF Q = {} THEN NULL
        ELSE DirAt(PATH, FirstOf(Q)) \o <<"/">> \o At(argv, 0)

\* C5: the search ends with the candidate of the earliest directory of
\* PATH whose candidate passes access(X_OK) as its result, and with no
\* result exactly when none does.
C5_FirstMatchInOrder ==
    pc \in {"found", "exited"} => pc = "found" /\ command = FirstMatch

\* C6: /bin/sh is launched only after a direct launch that failed with
\* ENOEXEC, and at most once.
C6_FallbackOnlyOnENOEXEC ==
    /\ \A k \in 1..Len(execs) :
          execs[k].how = "fallback" =>
              k = 2 /\ execs[1].how = "direct" /\ execs[1].result = "ENOEXEC"
    /\ Len(execs) <= 2

\* C7: a run in which the Executor did not replace the process image ends
\* with exit status 1.
C7_ExecFailureExitsOne ==
    (pc = "exited" /\ execs # <<>>) => status = 1

Sanitized == filter_env_vars(environ, options.env_keep, options.env_check)

\* C8: the environment of every execve(), direct or through /bin/sh, and
\* of the new image is the output of the sanitizer; it names nothing that
\* env_keep and env_check do not list.
C8_DefaultDenyEnv ==
    /\ \A k \in 1..Len(execs) :
          /\ execs[k].envp = Sanitized
          /\ \A j \in 1..Len(execs[k].envp) :
                execs[k].envp[j].name \in
                    options.env_keep \cup options.env_check
    /\ image # StartImage => image.envp = Sanitized

C8_Witness ==
    /\ Len(execs) = 2
    /\ execs[2].how = "fallback"
    /\ Len(execs[2].envp) < Len(environ)
    /\ Len(execs[2].envp) > 0
    /\ pc = "replaced"

PipelineCalls == CapCalls \cup
    {"get_settings_from_config", "filter_env_vars", "secure_path",
     "realpath", "access", "find_absolute_path_from_env", "execve",
     "execve(/bin/sh)"}

\* C9: on a run with -i nothing of the execution pipeline is called, the
\* process state is untouched, and after the identity, authentication and
\* group lookups succeeded the run ends with exit status 0.
C9_InfoReadOnly ==
    arguments.info = 1 =>
        /\ \A c \in PipelineCalls : ~Called(c)
        /\ ~setpcap /\ proc_iab = NULL_iab /\ ~securebits
        /\ env = <<>> /\ PATH = PATH0 /\ command = NULL
        /\ execs = <<>> /\ image = StartImage
        /\ (pc = "exited" /\ groups # <<>>) => status = 0

C9_Witness ==
    /\ arguments.info = 1
    /\ pc = "exited"
    /\ groups # <<>>
    /\ Called("print_rights_role")
    /\ argc >= 1

\* C10: every candidate of the PATH search is built from a directory of the
\* path secure_path computed, and the inherited value of PATH is never
\* overwritten.
C10_SearchUsesSecuredPath ==
    /\ \A k \in 1..Len(tried) :
          \E i \in DirStarts(secured) :
              tried[k] = DirAt(secured, i) \o <<"/">> \o At(argv, 0)
    /\ PATH = PATH0

Count(c) == Cardinality({k \in 1..Len(calls) : calls[k] = c})

Index(c) == CHOOSE k \in 1..Len(calls) : calls[k] = c

\* b is called only after a
After(a, b) == Called(b) => Called(a) /\ Index(a) < Index(b)

Acquire == "setpcap_effective(1)"
Install == "cap_iab_set_proc"
Release == "setpcap_effective(0)"
Lockdown == "activates_securebits"

StageCalls == {"filter_env_vars", "secure_path", "realpath", "access",
               "find_absolute_path_from_env", "execve", "execve(/bin/sh)"}

\* C11: the capability calls happen at most once each, in the order
\* acquire, install, release, lockdown (only with no_root), each after the
\* success of the one before; filtering, path securing, command
\* resolution and exec happen only after the release has succeeded.
C11_CapabilityOrder ==
    /\ \A c \in CapCalls : Count(c) <= 1
    /\ After(Acquire, Install) /\ After(Install, Release)
    /\ After(Release, Lockdown)
    /\ pc = "cap_iab_set_proc" => Called(Acquire) /\ setpcap
    /\ (Called(Install) /\ ~Called(Release)) => setpcap
    /\ pc = "setpcap_off" => setpcap /\ proc_iab = iab
    /\ Called(Release) => proc_iab = iab
    /\ pc = "securebits" => ~setpcap /\ proc_iab = iab
    /\ Called(Lockdown) => options.no_root /\ ~setpcap /\ proc_iab = iab
    /\ \A c \in StageCalls :
          Called(c) =>
              /\ After(Release, c)
              /\ ~setpcap /\ proc_iab = iab
              /\ options.no_root => After(Lockdown, c)

C11_Witness ==
    /\ pc = "replaced"
    /\ Called(Lockdown)
    /\ Called("find_absolute_path_from_env")

\* C12: with no_root set every execve is preceded by a successful
\* activation of the securebits and a failed activation ends the run with
\* no execve; with no_root unset the activation is never called.
C12_LockdownBeforeExec ==
    /\ (options.no_root /\ execs # <<>>) =>
          /\ securebits
          /\ After(Lockdown, "execve") /\ After(Lockdown, "execve(/bin/sh)")
          /\ Called(Lockdown)
    /\ (Called(Lockdown) /\ ~securebits /\ pc # "securebits") =>
          pc = "exited" /\ execs = <<>> /\ status = 1
    /\ ~options.no_root => ~Called(Lockdown) /\ ~securebits

C12_Witness ==
    /\ options.no_root
    /\ Len(execs) = 2
    /\ securebits
    /\ pc = "replaced"

\* the policy store answered with no match: iab and options were left NULL
Denied == Decided /\ iab = NULL_iab /\ options = NULL_options

\* C13: when the policy store reports no match the run ends with exit
\* status 1 and the diagnostic "Permission denied", and nothing of the
\* capability transition or of the execution pipeline has happened.
C13_DeniedFailsClosed ==
    Denied =>
        /\ pc = "exited" /\ status = 1 /\ diag = "Permission denied"
        /\ NoCapCall
        /\ \A c \in StageCalls : ~Called(c)
        /\ ~setpcap /\ proc_iab = NULL_iab /\ ~securebits
        /\ env = <<>> /\ PATH = PATH0
        /\ execs = <<>> /\ image = StartImage

C13_Witness ==
    /\ Denied
    /\ command = CmdX
    /\ get_settings_from_config(store, user, groups, command).ret = 0
    /\ diag = "Permission denied"

\* C14: when parse_arguments fails or -h is given the usage is shown, else
\* when -v is given the version is shown; either way the run ends with
\* exit status 0 before any collaborator is called.
C14_HelpVersionExitEarly ==
    (pc # "parse" /\ (usage \/ arguments.help = 1 \/ arguments.version = 1))
    =>  /\ pc = "exited" /\ status = 0
        /\ diag = IF usage \/ arguments.help = 1 THEN "Usage"
                  ELSE "SR version"
        /\ calls = <<>>
        /\ user = NoUser /\ ~Decided
        /\ ~setpcap /\ proc_iab = NULL_iab /\ ~securebits
        /\ execs = <<>> /\ image = StartImage

C14_Witness ==
    /\ pc = "exited"
    /\ ~usage
    /\ arguments.help = 1 /\ arguments.version = 1
    /\ diag = "Usage"
    /\ status = 0

\* find_absolute_path_from_env has returned and line 185 has tested its result
SearchDone ==
    /\ Called("find_absolute_path_from_env")
    /\ pc \notin {"find", "find_loop", "found"}

NotFound == pc = "exited" /\ diag = "Command not found"

\* C15: when the canonical path is not valid and no directory of the search
\* path gives an executable candidate the run ends with exit status 1 and
\* "Command not found" and nothing is executed; "Command not found" is
\* reported only when neither branch produced an executable path.
C15_NotFoundIffNoMatch ==
    /\ (SearchDone /\ ~CanonValid /\ Qualifying(PATH, At(argv, 0)) = {}) =>
          NotFound /\ status = 1 /\ execs = <<>>
    /\ NotFound =>
          ~CanonValid /\ Qualifying(PATH, At(argv, 0)) = {}

\* C16: "Path too long" is reported exactly when realpath() failed with
\* ENAMETOOLONG.
C16_PathTooLongIffRealpath ==
    /\ (pc = "exited" /\ diag = "Path too long") =>
          canon = NULL /\ errno = "ENAMETOOLONG"
    /\ (pc = "access" /\ canon = NULL) => errno # "ENAMETOOLONG"

Terminated == pc \in {"exited", "replaced"}

OneShot ==
    /\ \A j, k \in 1..Len(calls) : calls[j] = calls[k] => j = k
    /\ Len(tried) <= Cardinality(DirStarts(PATH))
    /\ Len(execs) <= 2
    /\ \A j, k \in 1..Len(execs) : execs[j].how = execs[k].how => j = k
    /\ pc = "exited" <=> status # Running
    /\ pc = "replaced" <=> image # StartImage
    /\ status = Running \/ image = StartImage

\* C17: no stage of the pipeline runs twice, and every run ends in exactly
\* one of two ways: the process exits with a status or its image is
\* replaced.
C17_OneShotTerminates == [](OneShot) /\ <>Terminated

C17_Witness ==
    /\ pc = "replaced"
    /\ Len(tried) >= 2
    /\ Len(execs) = 2
    /\ status = Running

Launched == execs # <<>>

\* C18: whenever an execve has been made, directly or through /bin/sh, the
\* process does not hold CAP_SETPCAP in its effective set, the triple
\* installed is the one the policy store returned for this user, these
\* groups and this command, and the authentication, the policy resolution,
\* the filter of the environment and secure_path have all been called
\* before it and have succeeded.
C18_LaunchPreconditions ==
    Launched =>
        LET d == get_settings_from_config(store, user, groups, At(argv, 0))
            first == IF Called("execve") THEN "execve" ELSE "execve(/bin/sh)"
        IN  /\ ~setpcap
            /\ Decided /\ ~Denied
            /\ d.ret # 0
            /\ iab = d.iab
            /\ proc_iab = d.iab
            /\ Called(authenticated) /\ ~Called(rejected)
            /\ \A c \in {authenticated, "get_settings_from_config", Install,
                          Release, "filter_env_vars", "secure_path"} :
                  Called(c) /\ Index(c) < Index(first)
            /\ secured = secure_path(PATH0, options.path)
            /\ \A k \in 1..Len(execs) : execs[k].envp = Sanitized
            /\ image # StartImage => image.envp = Sanitized

C18_Witness ==
    /\ pc = "replaced"
    /\ Len(execs) = 1
    /\ execs[1].how = "direct"
    /\ proc_iab = RoleR2(TRUE).iab
    /\ ~setpcap

\* C19: the vector handed to /bin/sh is "sh", the resolved path and the
\* arguments of the command, every entry written lies inside the array
\* that reallocarray() returned, and the last entry written is NULL.
C19_FallbackArgvWellFormed ==
    \A k \in 1..Len(execs) :
        execs[k].how = "fallback" =>
            /\ Len(nargv) <= nargv_cap
            /\ nargv[Len(nargv)] = NULL
            /\ SubSeq(nargv, 1, 2) = <<Sh, command>>
            /\ SubSeq(nargv, 3, Len(nargv) - 1) \in {argv, Tail(argv)}
            /\ execs[k].argv = nargv

NoCommand ==
    /\ pc \notin {"parse", "get_username", "authenticate",
                  "get_group_names", "branch"}
    /\ ~usage
    /\ argc = 0
    /\ arguments.help = 0 /\ arguments.version = 0 /\ arguments.info = 0
    /\ Called("get_group_names") /\ groups # <<>>

\* C20: a run that is left with no command after the options, and with
\* none of -h, -v and -i, never reads argv[0], never asks the policy store
\* and makes no capability call and no execve.
C20_CommandReadOnlyWhenPresent ==
    NoCommand =>
        /\ ~Called("strnlen(NULL)")
        /\ diag # "Segmentation fault"
        /\ ~Called("get_settings_from_config")
        /\ NoCapCall
        /\ execs = <<>>

=============================================================================
